---- MODULE Spec2Model ----
(***************************************************************************)
(* Model of the dma-buf crate (src/src/lib.rs, src/src/ioctl.rs): one      *)
(* DmaBuf handle, the Mappings created from it by memory_map_ro /          *)
(* memory_map_rw / memory_map_wo, the accesses through them and their      *)
(* Drop.  The kernel calls made for a Mapping (fstat, mmap, the            *)
(* DMA_BUF_IOCTL_SYNC ioctl, munmap) and the accesses through it are       *)
(* recorded, in order, in its hist field; its warn! output in warns.  A    *)
(* Mapping exists in mapping while it is live; the record of the call or   *)
(* Mapping that ended last (a failed map call, a dropped Mapping) is kept  *)
(* in last.  The bytes of the buffer are in buffer; a Mapping reads and    *)
(* writes them through its view.                                           *)
(*                                                                         *)
(* Integer widths are scaled down: st_size is a signed integer of OffBits  *)
(* bits (i64 in the code), usize has usizeBits bits, which is OffBits on a *)
(* target whose usize is as wide as st_size (64-bit) and OffBits - 2 on a  *)
(* target whose usize is narrower (32-bit).                                *)
(***************************************************************************)
EXTENDS Integers, Sequences, FiniteSets

\* ---------------------------------------------------------------- bounds
\* Number of memory_map_* calls made on the handle in one behaviour.
MaxCalls == 2
\* Number of as_slice / as_slice_mut calls made through one Mapping.
MaxAccess == 2
\* Number of distinct addresses the kernel's mmap can hand out.
NumAddrs == 2
\* Width in bits of the (scaled) st_size type.
OffBits == 16

VARIABLES
    st_size,         \* the size fstat reports for the buffer (stat.st_size)
    pageSize,        \* the value of page_size()
    usizeBits,       \* width of usize on the target
    overflowChecks,  \* whether the build has overflow checks enabled
    fdOpen,          \* the DmaBuf (its OwnedFd) has not been dropped
    nCalls,          \* memory_map_* calls made so far
    mapping,         \* per call: the Mapping it returned, while it is live
    last,            \* the map call that failed or the Mapping dropped last
    regions,         \* addresses currently mapped in the address space
    nClose,          \* close calls made on the descriptor
    buffer,          \* the bytes of the shared buffer, at the offsets modelled
    written          \* per offset, the byte the CPU stored last (-1: none)

vars == <<st_size, pageSize, usizeBits, overflowChecks, fdOpen, nCalls,
          mapping, last, regions, nClose, buffer, written>>

Ids == 1..MaxCalls
Addrs == 1..NumAddrs
Modes == {"ro", "rw", "wo"}
\* The offsets of the buffer that are modelled (the first and the last byte
\* of a 10-byte buffer) and the values a byte takes.
Offsets == {0, 9}
Bytes == {0, 1}
content == <<buffer, written>>

RECURSIVE Pow2(_)
Pow2(n) == IF n = 0 THEN 1 ELSE 2 * Pow2(n - 1)

\* ------------------------------------------------------------ src/ioctl.rs
RECURSIVE BitOr(_, _)
BitOr(a, b) ==
    IF a = 0 THEN b
    ELSE IF b = 0 THEN a
    ELSE (IF (a % 2 = 1) \/ (b % 2 = 1) THEN 1 ELSE 0) + 2 * BitOr(a \div 2, b \div 2)

Shl(a, k) == a * Pow2(k)

DMA_BUF_SYNC_READ == Shl(1, 0)
DMA_BUF_SYNC_WRITE == Shl(1, 1)
DMA_BUF_SYNC_START == Shl(0, 2)
DMA_BUF_SYNC_END == Shl(1, 2)

\* The flags word each of the six ioctl wrappers passes to dma_buf_sync.
dma_buf_begin_cpu_read_access == BitOr(DMA_BUF_SYNC_START, DMA_BUF_SYNC_READ)
dma_buf_begin_cpu_readwrite_access ==
    BitOr(BitOr(DMA_BUF_SYNC_START, DMA_BUF_SYNC_WRITE), DMA_BUF_SYNC_READ)
dma_buf_begin_cpu_write_access == BitOr(DMA_BUF_SYNC_START, DMA_BUF_SYNC_WRITE)
dma_buf_end_cpu_read_access == BitOr(DMA_BUF_SYNC_END, DMA_BUF_SYNC_READ)
dma_buf_end_cpu_readwrite_access ==
    BitOr(BitOr(DMA_BUF_SYNC_END, DMA_BUF_SYNC_WRITE), DMA_BUF_SYNC_READ)
\* Faulty variant: the end of a write access sent with the begin phase.
dma_buf_end_cpu_write_access_AsBegin == BitOr(DMA_BUF_SYNC_START, DMA_BUF_SYNC_WRITE)

dma_buf_end_cpu_write_access == BitOr(DMA_BUF_SYNC_END, DMA_BUF_SYNC_WRITE)

\* dma_buf_sync maps a rejected ioctl to the FdAccess error kind.
SyncErr == "FdAccess"

\* ------------------------------------------------- events of the history
Ev(op, c, a, n, ok) == [op |-> op, call |-> c, a |-> a, n |-> n, ok |-> ok]
Warn(c, msg) == [call |-> c, msg |-> msg]
SelectOp(h, ops) == SelectSeq(h, LAMBDA e : e.op \in ops)

\* ------------------------------------------------- src/lib.rs: memory_map
OffMin == 0 - Pow2(OffBits - 1)
OffMax == Pow2(OffBits - 1) - 1
\* The targets: usize as wide as st_size, or narrower.
WideBits == OffBits
NarrowBits == OffBits - 2
UsizeMax == Pow2(usizeBits) - 1

\* usize::try_from(stat.st_size): fails when the value is not a usize.
TryFromOff(v) ==
    IF v < 0 \/ v > UsizeMax THEN [ok |-> FALSE, val |-> 0]
    ELSE [ok |-> TRUE, val |-> v]

\* usize::next_multiple_of(n, p): match n % p { 0 => n, r => n + (p - r) };
\* the addition panics on overflow when the build checks overflow and wraps
\* otherwise.
NextMultipleOf(n, p) ==
    LET r == n % p
        s == n + (p - r)
    IN  IF r = 0 THEN [panic |-> FALSE, val |-> n]
        ELSE IF s <= UsizeMax THEN [panic |-> FALSE, val |-> s]
        ELSE IF overflowChecks THEN [panic |-> TRUE, val |-> 0]
        ELSE [panic |-> FALSE, val |-> s % (UsizeMax + 1)]

\* Faulty variant: a failed fstat reported as a failed mapping.
FstatErrAsMappingFailed == "MappingFailed"

\* The error kinds memory_map returns.
FstatErr == "FdAccess"
ConvErr == "IntegerConversionFailed"
MmapErr == "MappingFailed"

\* What the `?` on usize::try_from does with a failed conversion.
ConvFailure == ConvErr

\* mmap(2) as the kernel can answer it: never a zero length, never an address
\* that is still mapped.  The code never looks at the value of an address, so
\* the kernel is taken to hand out the lowest address that is free.
KernelCanMap(len, addr) ==
    /\ len # 0
    /\ addr \notin regions
    /\ \A a \in Addrs : a < addr => a \in regions

\* Faulty variant: memory_map going on to mmap after a failed fstat.
MemoryMapIgnoringFstat(c, fstatOk, mmapOk, addr) ==
    LET conv == TryFromOff(st_size)
        nm == NextMultipleOf(conv.val, pageSize)
        fs == Ev("fstat", c, 0, 0, fstatOk)
    IN  IF ~conv.ok THEN
            [res |-> ConvFailure, len |-> 0, ptr |-> 0, calls |-> <<fs>>]
        ELSE IF nm.panic THEN
            [res |-> "Panic", len |-> 0, ptr |-> 0, calls |-> <<fs>>]
        ELSE IF ~mmapOk THEN
            [res |-> MmapErr, len |-> nm.val, ptr |-> 0,
             calls |-> <<fs, Ev("mmap", c, 0, nm.val, FALSE)>>]
        ELSE
            [res |-> "Ok", len |-> nm.val, ptr |-> addr,
             calls |-> <<fs, Ev("mmap", c, addr, nm.val, TRUE)>>]

\* DmaBuf::memory_map for call c: the result, the (len, mapping_ptr) pair and
\* the kernel calls made, given how the kernel answers.
MemoryMap(c, fstatOk, mmapOk, addr) ==
    LET conv == TryFromOff(st_size)
        nm == NextMultipleOf(conv.val, pageSize)
        fs == Ev("fstat", c, 0, 0, fstatOk)
    IN  IF ~fstatOk THEN
            [res |-> FstatErr, len |-> 0, ptr |-> 0, calls |-> <<fs>>]
        ELSE IF ~conv.ok THEN
            [res |-> ConvFailure, len |-> 0, ptr |-> 0, calls |-> <<fs>>]
        ELSE IF nm.panic THEN
            [res |-> "Panic", len |-> 0, ptr |-> 0, calls |-> <<fs>>]
        ELSE IF ~mmapOk THEN
            [res |-> MmapErr, len |-> nm.val, ptr |-> 0,
             calls |-> <<fs, Ev("mmap", c, 0, nm.val, FALSE)>>]
        ELSE
            [res |-> "Ok", len |-> nm.val, ptr |-> addr,
             calls |-> <<fs, Ev("mmap", c, addr, nm.val, TRUE)>>]

\* ------------------------------------- src/lib.rs: the three Mapping types
BeginFlags(mode) ==
    CASE mode = "ro" -> dma_buf_begin_cpu_read_access
      [] mode = "rw" -> dma_buf_begin_cpu_readwrite_access
      [] mode = "wo" -> dma_buf_begin_cpu_write_access

\* Faulty variant: Drop for MappedDmaBufRw ending the write direction only.
EndFlagsRwAsWrite(mode) ==
    CASE mode = "ro" -> dma_buf_end_cpu_read_access
      [] mode = "rw" -> dma_buf_end_cpu_write_access
      [] mode = "wo" -> dma_buf_end_cpu_write_access

EndFlags(mode) ==
    CASE mode = "ro" -> dma_buf_end_cpu_read_access
      [] mode = "rw" -> dma_buf_end_cpu_readwrite_access
      [] mode = "wo" -> dma_buf_end_cpu_write_access

EndWarn(mode) ==
    CASE mode = "ro" -> "End read access failed"
      [] mode = "rw" -> "End read|write access failed"
      [] mode = "wo" -> "End write access failed"

NoMapping ==
    [st |-> "none", mode |-> "-", len |-> 0, mmap |-> 0, result |-> "-",
     hist |-> <<>>, warns |-> <<>>, exiting |-> FALSE, callerResult |-> "-",
     cow |-> [o \in Offsets |-> 0 - 1]]

Live == {c \in Ids : mapping[c].st = "live"}
Exclusive(c) == mapping[c].mode \in {"rw", "wo"}

\* Faulty variant: memory_map_ro handing out a Mapping that borrows nothing.
CanBorrowSharedAlways == TRUE

\* memory_map_ro takes &self: the borrow checker accepts the call while no
\* &mut borrow of the DmaBuf (a live rw / wo Mapping) exists.
CanBorrowShared == \A c \in Live : ~Exclusive(c)

\* Faulty variant: memory_map_rw / memory_map_wo taking &self, like memory_map_ro.
CanBorrowMutAsShared == \A c \in Live : ~Exclusive(c)

\* memory_map_rw and memory_map_wo take &mut self: accepted only while no
\* borrow of the DmaBuf (no live Mapping) exists.
CanBorrowMut == Live = {}

CanBorrow(mode) == IF mode = "ro" THEN CanBorrowShared ELSE CanBorrowMut

\* Faulty variant: new() without the `?` on the begin notification.
NewResultIgnoringBegin(beginOk) == "Ok"

\* MappedDmaBuf{Ro,Rw,Wo}::new: the begin notification, then `?`.
NewResult(beginOk) == IF beginOk THEN "Ok" ELSE SyncErr

\* memory_map_{ro,rw,wo}: memory_map()? and then new().
MapCall(mode, fstatOk, mmapOk, addr, beginOk) ==
    /\ fdOpen
    /\ nCalls < MaxCalls
    /\ CanBorrow(mode)
    /\ LET c == nCalls + 1
           mm == MemoryMap(c, fstatOk, mmapOk, addr)
           res == IF mm.res = "Ok" THEN NewResult(beginOk) ELSE mm.res
           calls == IF mm.res = "Ok"
                    THEN mm.calls \o <<Ev("sync", c, 0, BeginFlags(mode), beginOk)>>
                    ELSE mm.calls
       IN  /\ mmapOk => KernelCanMap(mm.len, addr)
           /\ nCalls' = c
           /\ regions' = IF mm.res = "Ok" THEN regions \cup {mm.ptr} ELSE regions
           /\ IF res = "Ok"
              THEN /\ mapping' = [mapping EXCEPT ![c] =
                        [st |-> "live", mode |-> mode, len |-> mm.len,
                         mmap |-> mm.ptr, result |-> "Ok", hist |-> calls,
                         warns |-> <<>>, exiting |-> FALSE, callerResult |-> "Ok",
                         cow |-> NoMapping.cow]]
                   /\ UNCHANGED last
              ELSE /\ last' = [NoMapping EXCEPT !.st = "failed", !.mode = mode,
                                               !.result = res, !.hist = calls]
                   /\ UNCHANGED mapping
    /\ UNCHANGED <<st_size, pageSize, usizeBits, overflowChecks, fdOpen, nClose,
                   content>>

memory_map_ro ==
    \E fstatOk, mmapOk, beginOk \in BOOLEAN, addr \in Addrs :
        MapCall("ro", fstatOk, mmapOk, addr, beginOk)

memory_map_rw ==
    \E fstatOk, mmapOk, beginOk \in BOOLEAN, addr \in Addrs :
        MapCall("rw", fstatOk, mmapOk, addr, beginOk)

memory_map_wo ==
    \E fstatOk, mmapOk, beginOk \in BOOLEAN, addr \in Addrs :
        MapCall("wo", fstatOk, mmapOk, addr, beginOk)

\* ------------------------------------------- as_slice / as_slice_mut
\* Faulty variant: as_slice_mut implemented for every MappedDmaBuf<T>.
HasAsSliceMutForAll(mode) == mode \in Modes

\* The accessors each Mapping type has.
HasAsSlice(mode) == mode \in {"ro", "rw"}
HasAsSliceMut(mode) == mode \in {"rw", "wo"}

\* One access through Mapping c and the caller's logic on the view: the
\* view is slice::from_raw_parts(self.mmap, self.len); no kernel call.  When
\* the caller's logic fails, the caller returns early with its own error.
AccessOps == {"as_slice", "as_slice_mut"}
Accesses(c) == Len(SelectOp(mapping[c].hist, AccessOps))

\* Faulty variant: each access bracketed by its own begin and end notification.
AccessCallsBracketed(kind, c, logicOk) ==
    << Ev("sync", c, 0, BeginFlags(mapping[c].mode), TRUE),
       Ev(kind, c, mapping[c].mmap, mapping[c].len, logicOk),
       Ev("sync", c, 0, EndFlags(mapping[c].mode), TRUE) >>

\* Faulty variant: the view made st_size bytes long, not self.len.
AccessCallsLogicalLen(kind, c, logicOk) ==
    <<Ev(kind, c, mapping[c].mmap, st_size, logicOk)>>

\* What an access adds to the kernel calls and accesses of Mapping c.
AccessCalls(kind, c, logicOk) ==
    <<Ev(kind, c, mapping[c].mmap, mapping[c].len, logicOk)>>

Access(kind, c, logicOk) ==
    /\ mapping[c].st = "live"
    /\ ~mapping[c].exiting
    /\ Accesses(c) < MaxAccess
    /\ mapping' = [mapping EXCEPT ![c].hist = @ \o AccessCalls(kind, c, logicOk),
                                  ![c].exiting = ~logicOk,
                                  ![c].callerResult = IF logicOk THEN @ ELSE "AppError"]
    /\ UNCHANGED <<st_size, pageSize, usizeBits, overflowChecks, fdOpen, nCalls,
                   last, regions, nClose, content>>

as_slice ==
    \E c \in Ids, logicOk \in BOOLEAN :
        HasAsSlice(mapping[c].mode) /\ Access("as_slice", c, logicOk)

as_slice_mut ==
    \E c \in Ids, logicOk \in BOOLEAN :
        HasAsSliceMut(mapping[c].mode) /\ Access("as_slice_mut", c, logicOk)

\* ------------------------------------------------- bytes of the view
\* Faulty variant: the region mapped with MapFlags::PRIVATE.
MapPrivate == FALSE

\* memory_map maps the region with MapFlags::SHARED: a store through the view
\* goes to the buffer, not to a copy private to the Mapping.
MapShared == TRUE

\* The byte at offset o of the view of Mapping c (of the slice as_slice and
\* as_slice_mut return): the Mapping's private copy of it if it has one,
\* the byte of the buffer otherwise.
View(c, o) == IF mapping[c].cow[o] >= 0 THEN mapping[c].cow[o] ELSE buffer[o]

\* The caller's logic stores byte v at offset o of the &mut [u8] it got from
\* as_slice_mut of Mapping c.
Store(c, o, v) ==
    /\ mapping[c].st = "live"
    /\ ~mapping[c].exiting
    /\ \E i \in 1..Len(mapping[c].hist) : mapping[c].hist[i].op = "as_slice_mut"
    /\ o < mapping[c].len
    /\ IF MapShared
       THEN buffer' = [buffer EXCEPT ![o] = v] /\ UNCHANGED mapping
       ELSE mapping' = [mapping EXCEPT ![c].cow[o] = v] /\ UNCHANGED buffer
    /\ written' = [written EXCEPT ![o] = v]
    /\ UNCHANGED <<st_size, pageSize, usizeBits, overflowChecks, fdOpen, nCalls,
                   last, regions, nClose>>

store == \E c \in Ids, o \in Offsets, v \in Bytes : Store(c, o, v)

\* --------------------------------------------------------------- Drop
\* Faulty variant: the region unmapped before the end notification is sent.
DropCallsUnmapFirst(c, endOk, unmapOk) ==
    << Ev("munmap", c, mapping[c].mmap, mapping[c].len, unmapOk),
       Ev("sync", c, 0, EndFlags(mapping[c].mode), endOk) >>

\* Faulty variant: the region unmapped by the outer Drop and again by the inner one.
DropCallsUnmapTwice(c, endOk, unmapOk) ==
    << Ev("sync", c, 0, EndFlags(mapping[c].mode), endOk),
       Ev("munmap", c, mapping[c].mmap, mapping[c].len, unmapOk),
       Ev("munmap", c, mapping[c].mmap, mapping[c].len, unmapOk) >>

\* Faulty variant: the drop returning early when the end notification fails.
DropCallsEarlyReturn(c, endOk, unmapOk) ==
    IF endOk
    THEN << Ev("sync", c, 0, EndFlags(mapping[c].mode), endOk),
            Ev("munmap", c, mapping[c].mmap, mapping[c].len, unmapOk) >>
    ELSE << Ev("sync", c, 0, EndFlags(mapping[c].mode), endOk) >>

\* Faulty variant: the end notification sent only by the last Mapping of the
\* handle to go.
DropCallsLastOnly(c, endOk, unmapOk) ==
    IF Live = {c}
    THEN << Ev("sync", c, 0, EndFlags(mapping[c].mode), endOk),
            Ev("munmap", c, mapping[c].mmap, mapping[c].len, unmapOk) >>
    ELSE << Ev("munmap", c, mapping[c].mmap, mapping[c].len, unmapOk) >>

\* Drop for MappedDmaBuf{Ro,Rw,Wo} (the end notification), then the drop of
\* its field, Drop for MappedDmaBuf (munmap): the kernel calls, in order.
DropCalls(c, endOk, unmapOk) ==
    << Ev("sync", c, 0, EndFlags(mapping[c].mode), endOk),
       Ev("munmap", c, mapping[c].mmap, mapping[c].len, unmapOk) >>

\* The warn! lines of the two drops.
DropWarns(c, endOk, unmapOk) ==
    (IF endOk THEN <<>> ELSE <<Warn(c, EndWarn(mapping[c].mode))>>) \o
    (IF unmapOk THEN <<>> ELSE <<Warn(c, "unmap failed!")>>)

\* Faulty variant: a failed end notification escalated to the caller.
DropSurfacedEscalating(c, endOk, unmapOk) ==
    IF endOk THEN mapping[c].callerResult ELSE SyncErr

\* fn drop(&mut self) returns nothing: what the caller's scope yields is
\* what its own logic produced.
DropSurfaced(c, endOk, unmapOk) == mapping[c].callerResult

DropMapping(c, endOk, unmapOk) ==
    /\ mapping[c].st = "live"
    /\ regions' = IF unmapOk THEN regions \ {mapping[c].mmap} ELSE regions
    /\ last' = [mapping[c] EXCEPT !.st = "released",
                                  !.hist = @ \o DropCalls(c, endOk, unmapOk),
                                  !.warns = @ \o DropWarns(c, endOk, unmapOk),
                                  !.callerResult = DropSurfaced(c, endOk, unmapOk)]
    /\ mapping' = [mapping EXCEPT ![c] = NoMapping]
    /\ UNCHANGED <<st_size, pageSize, usizeBits, overflowChecks, fdOpen, nCalls,
                   nClose, content>>

Drop == \E c \in Ids, endOk, unmapOk \in BOOLEAN : DropMapping(c, endOk, unmapOk)

\* Faulty variant: the DmaBuf dropped while Mappings hold its descriptor.
CanDropDmaBufAlways == TRUE

\* Every Mapping holds a &DmaBuf or a &mut DmaBuf of lifetime 'a: the DmaBuf
\* cannot be dropped while one is live.
CanDropDmaBuf == Live = {}

\* Drop of the DmaBuf (its OwnedFd closes the descriptor): possible only
\* when no Mapping borrows it.
DropDmaBuf ==
    /\ fdOpen
    /\ CanDropDmaBuf
    /\ fdOpen' = FALSE
    /\ nClose' = nClose + 1
    /\ UNCHANGED <<st_size, pageSize, usizeBits, overflowChecks, nCalls, mapping,
                   last, regions, content>>

\* ------------------------------------------------------ specifications
Next ==
    \/ memory_map_ro
    \/ memory_map_rw
    \/ memory_map_wo
    \/ as_slice
    \/ as_slice_mut
    \/ Drop
    \/ DropDmaBuf

InitHandle ==
    /\ fdOpen = TRUE
    /\ nCalls = 0
    /\ mapping = [c \in Ids |-> NoMapping]
    /\ last = NoMapping
    /\ regions = {}
    /\ nClose = 0
    /\ written = [o \in Offsets |-> 0 - 1]

\* The lifecycle of the Mappings of one handle, for a buffer whose size the
\* kernel reports as 10 bytes or as a negative number.
Init ==
    /\ pageSize = 4096
    /\ usizeBits = WideBits
    /\ overflowChecks = FALSE
    /\ st_size \in {0 - 1, 10}
    /\ buffer = [o \in Offsets |-> 0]
    /\ InitHandle

Spec == Init /\ [][Next]_vars

\* Every scope ends: each live Mapping is eventually dropped, and so is the
\* DmaBuf.
FairSpec ==
    /\ Spec
    /\ \A c \in Ids : WF_vars(\E endOk, unmapOk \in BOOLEAN : DropMapping(c, endOk, unmapOk))
    /\ WF_vars(DropDmaBuf)

\* The length computation of memory_map on every target and build, for the
\* buffer sizes around every edge of the computation; one map call.
PageSizes == {4096, 8192}
BufSizes(p, bits) ==
    {n \in {OffMin, 0 - 1, 0, 1, 10, p - 1, p, p + 1,
             Pow2(bits) - p, Pow2(bits) - p + 1, Pow2(bits) - 1, Pow2(bits), OffMax} :
        OffMin <= n /\ n <= OffMax}

SizesInit ==
    /\ pageSize \in PageSizes
    /\ usizeBits \in {NarrowBits, WideBits}
    /\ overflowChecks \in BOOLEAN
    /\ st_size \in BufSizes(pageSize, usizeBits)
    /\ buffer = [o \in Offsets |-> 0]
    /\ InitHandle

SizesNext ==
    \/ (nCalls < 1 /\ memory_map_ro)
    \/ (nCalls < 1 /\ memory_map_rw)
    \/ (nCalls < 1 /\ memory_map_wo)
    \/ as_slice
    \/ as_slice_mut
    \/ Drop
    \/ DropDmaBuf

SizesSpec == SizesInit /\ [][SizesNext]_vars

\* The lifecycle with callers that store bytes through their mutable views,
\* for a 10-byte buffer that is zero at first.
RoundTripInit ==
    /\ pageSize = 4096
    /\ usizeBits = WideBits
    /\ overflowChecks = FALSE
    /\ st_size = 10
    /\ buffer = [o \in Offsets |-> 0]
    /\ InitHandle

RoundTripNext == Next \/ store

RoundTripSpec == RoundTripInit /\ [][RoundTripNext]_vars

\* ---------------------------------------------------------- properties
\* Reading a history: which events are notifications, of which phase and
\* direction; the positions of the events of a kind.
IsBeginEv(e) == e.op = "sync" /\ (e.n \div 4) % 2 = 0
IsEndEv(e) == e.op = "sync" /\ (e.n \div 4) % 2 = 1
IsAccessEv(e) == e.op \in AccessOps
IsMunmapEv(e) == e.op = "munmap"
IsFstatEv(e) == e.op = "fstat"
IsMmapEv(e) == e.op = "mmap"
Direction(e) == e.n % 4
ModeDirection(mode) ==
    (IF mode \in {"ro", "rw"} THEN 1 ELSE 0) + (IF mode \in {"rw", "wo"} THEN 2 ELSE 0)
Positions(h, P(_)) == {i \in 1..Len(h) : P(h[i])}
Begins(r) == Positions(r.hist, IsBeginEv)
Ends(r) == Positions(r.hist, IsEndEv)
AccessesOf(r) == Positions(r.hist, IsAccessEv)
Munmaps(r) == Positions(r.hist, IsMunmapEv)
\* The Mappings that exist and the record of what ended last.
LiveRecs == {mapping[c] : c \in Live}
Recs == LiveRecs \cup {last}
WasReleased == last.st = "released"
LogicFailed(r) == \E i \in AccessesOf(r) : ~r.hist[i].ok
EndFailed(r) == \E i \in Ends(r) : ~r.hist[i].ok
UnmapFailed(r) == \E i \in Munmaps(r) : ~r.hist[i].ok
FstatFailed(r) == \E i \in Positions(r.hist, IsFstatEv) : ~r.hist[i].ok
MmapFailed(r) == \E i \in Positions(r.hist, IsMmapEv) : ~r.hist[i].ok
BeginRejected(r) == \E i \in Begins(r) : ~r.hist[i].ok

\* C1: for a Mapping of any mode, the begin notification of its mode is
\* accepted before the first access through it, its end notification comes
\* after the last access, and the end notification comes before the munmap
\* of its region, never after it.
C1_OrderOf(r) ==
    LET h == r.hist
    IN  /\ r.st \in {"live", "released"} => Begins(r) # {}
        /\ \A a \in AccessesOf(r) :
              \E b \in Begins(r) :
                  b < a /\ h[b].ok /\ Direction(h[b]) = ModeDirection(r.mode)
        /\ \A a \in AccessesOf(r), e \in Ends(r) : a < e
        /\ \A e \in Ends(r), u \in Munmaps(r) : e < u
        /\ \A u \in Munmaps(r) :
              \E e \in Ends(r) : Direction(h[e]) = ModeDirection(r.mode)
        /\ r.st = "released" => Ends(r) # {} /\ Munmaps(r) # {}
C1_BeginAccessEndUnmapOrder == \A r \in Recs : C1_OrderOf(r)
\* A Mapping that was accessed has been released.
C1_Witness == WasReleased /\ AccessesOf(last) # {}

\* C2: a Mapping a map call returned has no munmap while it is live, is
\* eventually dropped, also after its caller's logic failed, and its drop
\* makes exactly one munmap of its region.
C2_JustReleased(c) ==
    /\ mapping[c].st = "none"
    /\ WasReleased
    /\ last.hist[1].call = c
    /\ Cardinality(Munmaps(last)) = 1
C2_ExactlyOneRelease ==
    /\ [](\A r \in LiveRecs : Munmaps(r) = {})
    /\ [](WasReleased =>
            /\ Cardinality(Munmaps(last)) = 1
            /\ \A u \in Munmaps(last) :
                  last.hist[u].a = last.mmap /\ last.hist[u].n = last.len)
    /\ \A c \in Ids : (mapping[c].st = "live") ~> C2_JustReleased(c)
\* A Mapping whose caller's logic failed and returned early has been released
\* with one munmap.
C2_Witness ==
    WasReleased /\ last.callerResult = "AppError" /\ Cardinality(Munmaps(last)) = 1

\* C3: a live write-only or read-write Mapping is the only live Mapping of
\* the handle; a read-only map call is accepted while only read-only
\* Mappings are live (and fewer than MaxCalls calls were made); a write-only
\* or read-write map call is rejected while any Mapping is live, and every
\* map call is rejected while an exclusive Mapping is live.
C3_ExclusiveIsAlone ==
    /\ \A c \in Live : Exclusive(c) => Live = {c}
    /\ (fdOpen /\ nCalls < MaxCalls /\ \A c \in Live : mapping[c].mode = "ro")
          => ENABLED memory_map_ro
    /\ Live # {} => ~(ENABLED memory_map_rw) /\ ~(ENABLED memory_map_wo)
    /\ (\E c \in Live : Exclusive(c)) => ~(ENABLED memory_map_ro)
\* Two read-only Mappings of the handle are live at once.
C3_Witness ==
    \E c, d \in Live : c # d /\ mapping[c].mode = "ro" /\ mapping[d].mode = "ro"

\* C4: a Mapping has exactly one begin notification, accepted, and no end
\* notification while it is live; once released it has exactly one begin and
\* exactly one end, of the same direction, that of its mode; a map call
\* whose begin notification was rejected has no end notification.
C4_PairOf(r) ==
    LET h == r.hist
    IN  /\ r.st = "live" =>
              /\ Cardinality(Begins(r)) = 1
              /\ Ends(r) = {}
        /\ r.st = "released" =>
              /\ Cardinality(Begins(r)) = 1
              /\ Cardinality(Ends(r)) = 1
              /\ \A b \in Begins(r), e \in Ends(r) :
                    /\ h[b].ok
                    /\ b < e
                    /\ Direction(h[b]) = Direction(h[e])
                    /\ Direction(h[e]) = ModeDirection(r.mode)
        /\ r.st = "failed" => Ends(r) = {} /\ Cardinality(Begins(r)) <= 1
C4_MatchedPairs == \A r \in Recs : C4_PairOf(r)
\* A read-write Mapping has been released.
C4_Witness == WasReleased /\ last.mode = "rw" /\ Cardinality(Ends(last)) = 1

\* C5: a live Mapping can be dropped whatever the end notification and the
\* munmap answer; the drop leaves it released, makes the munmap also when
\* the end notification failed, surfaces no error to the caller, and logs
\* exactly the calls that failed.
C5_WarnsOf(r) ==
    (IF EndFailed(r) THEN <<EndWarn(r.mode)>> ELSE <<>>) \o
    (IF UnmapFailed(r) THEN <<"unmap failed!">> ELSE <<>>)
C5_ReleaseInfallible ==
    /\ \A c \in Live : \A endOk, unmapOk \in BOOLEAN :
          ENABLED DropMapping(c, endOk, unmapOk)
    /\ WasReleased =>
          /\ Ends(last) # {}
          /\ Munmaps(last) # {}
          /\ last.callerResult \in {"Ok", "AppError"}
          /\ last.callerResult = "AppError" <=> LogicFailed(last)
          /\ [i \in 1..Len(last.warns) |-> last.warns[i].msg] = C5_WarnsOf(last)
\* A Mapping has been released with both its end notification and its munmap
\* failing.
C5_Witness == WasReleased /\ EndFailed(last) /\ UnmapFailed(last)

\* C6: every Mapping the caller holds has had the begin notification of its
\* mode accepted and no end notification issued; a map call whose begin
\* notification was rejected returned an error and no Mapping.
C6_NoUnsyncedMapping ==
    /\ \A c \in Ids : mapping[c].st \in {"none", "live"}
    /\ \A r \in LiveRecs :
          /\ \E b \in Begins(r) :
                r.hist[b].ok /\ Direction(r.hist[b]) = ModeDirection(r.mode)
          /\ \A b \in Begins(r) : r.hist[b].ok
          /\ Ends(r) = {}
    /\ BeginRejected(last) =>
          /\ last.st = "failed"
          /\ last.result # "Ok"
          /\ \A b \in Begins(last) : mapping[last.hist[b].call].st = "none"
\* A map call had its begin notification rejected while a Mapping is live.
C6_Witness == BeginRejected(last) /\ Live # {}

\* C7 as stated: a failed size query gives the error kind SizeQueryFailed,
\* which is neither the kind of a rejected begin notification nor the kind
\* of a rejected mmap.
C7_SizeQueryFailedKind ==
    (last.st = "failed" /\ FstatFailed(last)) =>
        /\ last.result = "SizeQueryFailed"
        /\ last.result # SyncErr
        /\ last.result # MmapErr
\* C7 as amended: a failed size query gives the error kind FdAccess, the kind
\* a rejected begin notification gives too; a rejected mmap gives
\* MappingFailed, a different kind.
C7_SizeQueryIsFdAccess ==
    /\ (last.st = "failed" /\ FstatFailed(last)) =>
          last.result = "FdAccess" /\ Len(last.hist) = 1
    /\ (last.st = "failed" /\ BeginRejected(last)) => last.result = "FdAccess"
    /\ (last.st = "failed" /\ MmapFailed(last)) => last.result = "MappingFailed"
\* A map call failed at its size query.
C7_Witness == last.st = "failed" /\ FstatFailed(last)

\* C8 as stated: when the size the kernel reports is not a usize, the map
\* call panics and returns no error value.
C8_Unrepresentable(r) ==
    /\ r.st = "failed"
    /\ ~FstatFailed(r)
    /\ (st_size < 0 \/ st_size > UsizeMax)
C8_UnrepresentableSizePanics ==
    C8_Unrepresentable(last) => last.result = "Panic"

\* C9 as stated: for every size n the kernel reports that is a usize, the
\* length passed to mmap and recorded in the Mapping is the smallest
\* multiple of the page size that is >= n, without wrap-around.
C9_SmallestMultiple(n, p) == ((n + p - 1) \div p) * p
C9_LengthOf(r) ==
    (r.st # "none" /\ ~FstatFailed(r) /\ 0 <= st_size /\ st_size <= UsizeMax) =>
        /\ r.result # "Panic"
        /\ Positions(r.hist, IsMmapEv) # {}
        /\ \A i \in Positions(r.hist, IsMmapEv) :
              /\ r.hist[i].n = C9_SmallestMultiple(st_size, pageSize)
              /\ r.hist[i].n >= st_size
              /\ r.hist[i].n - st_size < pageSize
              /\ r.hist[i].n % pageSize = 0
        /\ r.st \in {"live", "released"} =>
              r.len = C9_SmallestMultiple(st_size, pageSize)
C9_LengthIsSmallestMultiple ==
    /\ \A r \in Recs : C9_LengthOf(r)
    /\ C9_SmallestMultiple(10, 4096) = 4096

\* C10: when the caller's logic on a view failed and the end notification
\* or the munmap of the drop failed too, what the caller gets is its own
\* error, not the notifier's error kind, and the failure of the drop is in
\* the log.
C10_CallerErrorSurfaces ==
    (WasReleased /\ LogicFailed(last) /\ (EndFailed(last) \/ UnmapFailed(last))) =>
        /\ last.callerResult = "AppError"
        /\ last.callerResult # SyncErr
        /\ EndFailed(last) =>
              \E i \in 1..Len(last.warns) : last.warns[i].msg = EndWarn(last.mode)
        /\ UnmapFailed(last) =>
              \E i \in 1..Len(last.warns) : last.warns[i].msg = "unmap failed!"
\* A Mapping whose caller's logic failed has been dropped with its end
\* notification failing.
C10_Witness == WasReleased /\ LogicFailed(last) /\ EndFailed(last)

\* C11: every byte stored through a write-only or read-write Mapping is the
\* byte a read-only Mapping of the same handle, created after that Mapping
\* was released, shows at the same offset (no device changes the buffer).
C11_RoundTrip ==
    \A c \in Live :
        mapping[c].mode = "ro" =>
            \A o \in Offsets : written[o] >= 0 => View(c, o) = written[o]
\* A read-only Mapping has been read after a byte other than the buffer's
\* was stored at an offset.
C11_Witness ==
    \E c \in Live :
        /\ mapping[c].mode = "ro"
        /\ AccessesOf(mapping[c]) # {}
        /\ last.st = "released" /\ last.mode \in {"rw", "wo"}
        /\ \E o \in Offsets : written[o] = 1 /\ View(c, o) = 1


\* C12: the word sent with a notification is READ (bit 0), WRITE (bit 1) or
\* both, with START for the begin and END (bit 2) for the end: 1, 2, 3 to
\* begin a read-only, write-only, read-write Mapping and 5, 6, 7 to end it.
C12_Word(mode, ending) ==
    (CASE mode = "ro" -> 1 [] mode = "wo" -> 2 [] mode = "rw" -> 3)
        + (IF ending THEN 4 ELSE 0)
C12_SyncsOf(r) == {i \in 1..Len(r.hist) : r.hist[i].op = "sync"}
C12_WordsOf(r) ==
    \A i \in C12_SyncsOf(r) :
        r.hist[i].n = C12_Word(r.mode, \E j \in C12_SyncsOf(r) : j < i)
C12_FlagWords ==
    /\ \A r \in Recs : C12_WordsOf(r)
    /\ DMA_BUF_SYNC_READ = 1 /\ DMA_BUF_SYNC_WRITE = 2
    /\ DMA_BUF_SYNC_START = 0 /\ DMA_BUF_SYNC_END = 4
    /\ <<dma_buf_begin_cpu_read_access, dma_buf_begin_cpu_write_access,
         dma_buf_begin_cpu_readwrite_access, dma_buf_end_cpu_read_access,
         dma_buf_end_cpu_write_access, dma_buf_end_cpu_readwrite_access>>
           = <<1, 2, 3, 5, 6, 7>>
\* A write-only Mapping was released: its two words were 2 and 6.
C12_Witness ==
    /\ WasReleased /\ last.mode = "wo"
    /\ \E i, j \in C12_SyncsOf(last) : i < j /\ last.hist[i].n = 2 /\ last.hist[j].n = 6

\* The events a step adds to the history of call c.
NewEvents(c) ==
    LET before == mapping[c].hist
        after == IF mapping'[c].st = "live" THEN mapping'[c].hist
                 ELSE IF last' # last /\ last'.hist # <<>> /\ last'.hist[1].call = c
                      THEN last'.hist
                      ELSE before
    IN  SubSeq(after, Len(before) + 1, Len(after))
NewSyncs(c) == {i \in 1..Len(NewEvents(c)) : NewEvents(c)[i].op = "sync"}

\* C13: taking a view of a live Mapping sends no notification and leaves
\* the Mapping's mode, address, length and liveness, the mapped regions and
\* every other Mapping unchanged; however many views were taken, a released
\* Mapping sent exactly one begin and one end notification.
C13_AccessStep(c) ==
    (mapping[c].st = "live" /\ mapping'[c].st = "live"
        /\ mapping'[c].hist # mapping[c].hist)
    => /\ Len(NewEvents(c)) = 1
       /\ IsAccessEv(NewEvents(c)[1])
       /\ mapping'[c].mode = mapping[c].mode
       /\ mapping'[c].len = mapping[c].len
       /\ mapping'[c].mmap = mapping[c].mmap
       /\ Begins(mapping'[c]) = Begins(mapping[c])
       /\ Ends(mapping'[c]) = {}
       /\ regions' = regions /\ fdOpen' = fdOpen /\ last' = last
       /\ \A d \in Ids \ {c} : mapping'[d] = mapping[d]
C13_AccessIsFrame ==
    /\ [](WasReleased => Cardinality(C12_SyncsOf(last)) = 2)
    /\ [][\A c \in Ids : C13_AccessStep(c)]_vars
\* A Mapping was viewed twice and released.
C13_Witness ==
    /\ WasReleased
    /\ Cardinality(AccessesOf(last)) = 2
    /\ Cardinality(Begins(last)) = 1 /\ Cardinality(Ends(last)) = 1

\* C14: a read-only Mapping gives only the read-only view, a write-only
\* Mapping only the mutable view, a read-write Mapping both.
C14_CanView(kind, c) == ENABLED Access(kind, c, TRUE)
C14_Offered(c) ==
    LET m == mapping[c].mode
    IN  /\ (HasAsSlice(m) /\ C14_CanView("as_slice", c)) <=> m \in {"ro", "rw"}
        /\ (HasAsSliceMut(m) /\ C14_CanView("as_slice_mut", c)) <=> m \in {"rw", "wo"}
C14_ViewsOf(r) ==
    \A i \in AccessesOf(r) :
        /\ r.hist[i].op = "as_slice" => r.mode \in {"ro", "rw"}
        /\ r.hist[i].op = "as_slice_mut" => r.mode \in {"rw", "wo"}
C14_ViewsByVariant ==
    /\ \A r \in Recs : C14_ViewsOf(r)
    /\ \A c \in Live :
          (~mapping[c].exiting /\ Accesses(c) < MaxAccess) => C14_Offered(c)
\* A read-write Mapping gave both views.
C14_Witness ==
    \E c \in Live :
        /\ mapping[c].mode = "rw"
        /\ \E i, j \in AccessesOf(mapping[c]) :
              mapping[c].hist[i].op = "as_slice" /\ mapping[c].hist[j].op = "as_slice_mut"

\* C15: a region whose mmap succeeded and that belongs to no live Mapping
\* was unmapped exactly once, whatever failed after the mmap.
C15_Mapped(r) == \E i \in Positions(r.hist, IsMmapEv) : r.hist[i].ok
C15_NoRegionLeak ==
    (last.st \in {"failed", "released"} /\ C15_Mapped(last))
        => Cardinality(Munmaps(last)) = 1

\* C16: a map call queries the size, rounds it, maps the rounded length and
\* notifies the begin, in that order, and stops at the first failing step:
\* a failed size query or a rejected notification gives FdAccess, a failed
\* mmap gives MappingFailed and sends no notification, and a Mapping exists
\* only when every step succeeded.
C16_StepsOf(r) ==
    LET h == r.hist
    IN  r.st # "none" =>
        /\ Len(h) >= 1 /\ IsFstatEv(h[1])
        /\ ~h[1].ok => Len(h) = 1 /\ r.st = "failed" /\ r.result = "FdAccess"
        /\ Len(h) >= 2 =>
              /\ h[1].ok /\ IsMmapEv(h[2])
              /\ h[2].n % pageSize = 0 /\ h[2].n >= st_size /\ h[2].n < st_size + pageSize
              /\ ~h[2].ok => Len(h) = 2 /\ r.st = "failed" /\ r.result = "MappingFailed"
        /\ Len(h) >= 3 =>
              /\ h[2].ok /\ h[3].op = "sync" /\ h[3].n = C12_Word(r.mode, FALSE)
              /\ ~h[3].ok => Len(h) = 3 /\ r.st = "failed" /\ r.result = "FdAccess"
        /\ r.st = "failed" => Len(h) <= 3 /\ r.result # "Ok"
        /\ r.st \in {"live", "released"} =>
              Len(h) >= 3 /\ h[1].ok /\ h[2].ok /\ h[3].ok /\ r.result = "Ok"
C16_StepsInOrder == \A r \in Recs : C16_StepsOf(r)
\* The mmap of a call failed and the call stopped there.
C16_Witness ==
    /\ last.st = "failed" /\ last.result = "MappingFailed"
    /\ Len(last.hist) = 2 /\ last.hist[1].ok /\ ~last.hist[2].ok

\* C17: while a write-only or read-write Mapping is live no notification of
\* any other call is sent and none of its own but its end; whenever two or
\* more Mappings are live, each of them began a read and nothing else.
C17_OnlyReaders ==
    Cardinality(Live) >= 2 =>
        \A c \in Live :
            /\ mapping[c].mode = "ro"
            /\ \A i \in C12_SyncsOf(mapping[c]) : mapping[c].hist[i].n = 1
C17_ExclusiveStep(c) ==
    (mapping[c].st = "live" /\ Exclusive(c)) =>
        /\ \A d \in Ids \ {c} : NewSyncs(d) = {}
        /\ \A i \in NewSyncs(c) :
              mapping'[c].st # "live" /\ NewEvents(c)[i].n = EndFlags(mapping[c].mode)
C17_NoMixedDirections ==
    /\ []C17_OnlyReaders
    /\ [][\A c \in Ids : C17_ExclusiveStep(c)]_vars
\* Two read-only Mappings are live together and one of them was read.
C17_Witness ==
    /\ Cardinality(Live) >= 2
    /\ \E c \in Live : AccessesOf(mapping[c]) # {}

\* C18: the descriptor is closed at most once and only when no Mapping is
\* live, it can be closed whenever none is, also when no map call was ever
\* made, and it is closed in the end; every fstat, mmap and notification is
\* issued while the descriptor is open.
C18_UsesDescriptor(e) == e.op \in {"fstat", "mmap", "sync"}
C18_ClosedOnce ==
    /\ nClose <= 1
    /\ fdOpen <=> nClose = 0
    /\ ~fdOpen => Live = {}
    /\ (fdOpen /\ Live = {}) => ENABLED DropDmaBuf
C18_OpenStep(c) ==
    (\E i \in 1..Len(NewEvents(c)) : C18_UsesDescriptor(NewEvents(c)[i]))
        => fdOpen /\ fdOpen'
C18_HandleOutlivesMappings ==
    /\ []C18_ClosedOnce
    /\ [][\A c \in Ids : C18_OpenStep(c)]_vars
    /\ [][nClose' # nClose => Live = {} /\ nClose' = 1 /\ mapping' = mapping]_vars
    /\ <>(nClose = 1)
\* The descriptor was closed after a Mapping of the handle was released.
C18_Witness == nClose = 1 /\ ~fdOpen /\ WasReleased

\* C19: each live Mapping has one accepted begin notification and no end,
\* each ended one as many ends as accepted begins, and every step changes
\* the number of live Mappings by the accepted begins it sends minus the
\* ends it sends; releasing a read-only Mapping sends the end of a read and
\* leaves the other live Mappings as they are.
C19_AcceptedBegins(r) == {i \in Begins(r) : r.hist[i].ok}
C19_Balance(r) ==
    Cardinality(C19_AcceptedBegins(r)) - Cardinality(Ends(r))
        = IF r.st = "live" THEN 1 ELSE 0
C19_NewBegins ==
    {<<c, i>> \in Ids \X (1..(MaxAccess + 5)) :
        /\ i <= Len(NewEvents(c))
        /\ IsBeginEv(NewEvents(c)[i]) /\ NewEvents(c)[i].ok}
C19_NewEnds ==
    {<<c, i>> \in Ids \X (1..(MaxAccess + 5)) :
        i <= Len(NewEvents(c)) /\ IsEndEv(NewEvents(c)[i])}
C19_ReaderLeaves(c) ==
    (mapping[c].st = "live" /\ mapping[c].mode = "ro" /\ mapping'[c].st # "live") =>
        /\ \E i \in NewSyncs(c) : NewEvents(c)[i].n = 5
        /\ \A d \in Live \ {c} : mapping'[d] = mapping[d]
C19_BracketsMatchLive ==
    /\ [](\A r \in Recs : C19_Balance(r))
    /\ [][/\ Cardinality(Live') - Cardinality(Live)
                = Cardinality(C19_NewBegins) - Cardinality(C19_NewEnds)
          /\ \A c \in Ids : C19_ReaderLeaves(c)]_vars
\* A read-only Mapping was released, with the end of a read, while another
\* read-only Mapping, one that was read, is live.
C19_Witness ==
    /\ WasReleased /\ last.mode = "ro"
    /\ \E i \in Ends(last) : last.hist[i].n = 5
    /\ \E c \in Live : mapping[c].mode = "ro" /\ AccessesOf(mapping[c]) # {}

\* C20: a live Mapping's length is at least st_size and its address is not
\* null; address and length are those of its mmap and no step changes them
\* while it is live; every view and the munmap of the release have that
\* address and that length.
C20_Created(r) == r.hist[2]
C20_FixedOf(r) ==
    r.st \in {"live", "released"} =>
        /\ IsMmapEv(C20_Created(r)) /\ C20_Created(r).ok
        /\ C20_Created(r).n >= st_size
        /\ C20_Created(r).a \in Addrs /\ C20_Created(r).a # 0
        /\ r.st = "live" => r.len = C20_Created(r).n /\ r.mmap = C20_Created(r).a
        /\ \A i \in AccessesOf(r) \cup Munmaps(r) :
              r.hist[i].a = C20_Created(r).a /\ r.hist[i].n = C20_Created(r).n
C20_StableAddressAndLength ==
    /\ [](\A r \in Recs : C20_FixedOf(r))
    /\ [][\A c \in Ids :
            (mapping[c].st = "live" /\ mapping'[c].st = "live") =>
                mapping'[c].len = mapping[c].len /\ mapping'[c].mmap = mapping[c].mmap]_vars
\* A Mapping longer than the buffer was viewed and released.
C20_Witness ==
    /\ WasReleased /\ AccessesOf(last) # {} /\ Munmaps(last) # {}
    /\ st_size > 0 /\ C20_Created(last).n > st_size

====
